---------------------------- MODULE Spec2Model ----------------------------
(***************************************************************************)
(* QuakeWatch: the marker pipeline of src/utils/mapUtils                   *)
(* (src/unnamed/part_000).  createClusterMarkers filters the GeoJSON       *)
(* features it is given, loads them into a Supercluster index, queries the *)
(* index for the viewport and maps each returned node to a "single" or a   *)
(* "cluster" marker descriptor.  createMarkerElement and getMagnitudeColor *)
(* size and colour the element of a descriptor.  The Map component         *)
(* (src/src/components/Map.jsx) loads the earthquake list, reacts to       *)
(* moveend/zoomend through a 100 ms timer and keeps the markers of the map;*)
(* getEarthquakes (src/unnamed/part_001) fetches from the USGS service.    *)
(*                                                                         *)
(* JavaScript values are modelled as tagged pairs <<tag, payload>>, so     *)
(* that undefined, null, NaN, numbers and strings stay distinct and the    *)
(* operators ||, ?., !=null, *, + and / are computed the way the language  *)
(* computes them.  Numbers are exact fractions <<n, d>> in lowest terms.   *)
(* Objects are records; a property an object does not have reads as        *)
(* undefined.                                                              *)
(*                                                                         *)
(* Positions live on the projected plane of the index, in integer units of *)
(* one pixel at the deepest clustered zoom: the world is                   *)
(* Extent * 2^MaxZoom units wide, a longitude of -180 degrees is           *)
(* -WorldSize \div 2 and latitudes are laid out the same way (a monotone   *)
(* stand-in for the Mercator projection).  Cluster centroids are rounded   *)
(* down to whole units where the library keeps a float.                    *)
(***************************************************************************)
EXTENDS Integers, Sequences, FiniteSets, TLC

VARIABLES earthquakes,    \* argument 1 of the call: a JS value
          bounds,         \* argument 2 of the call: a JS value
          zoom,           \* argument 3 of the call: a JS value
          pc,             \* "idle" before a call, "returned" after it
          raised,         \* TRUE when the call let an exception escape
          markers,        \* the value the call returned
          validFeatures,  \* the local validFeatures of the call
          clusters,       \* the local clusters of the call
          calls,          \* the number of calls made so far
          elements,       \* the marker elements created from descriptors
          \* the Map component; its earthquakes state is the variable
          \* earthquakes, its map's viewport the variables bounds and zoom
          loading,        \* state loading
          error,          \* state error
          loads,          \* the loadEarthquakes calls started, in order
          mapLoaded,      \* what map.loaded() returns
          markersRef,     \* markersRef.current
          onMap,          \* the markers attached to the map
          updateTimeoutRef, \* updateTimeoutRef.current
          timers,         \* the pending setTimeout timers
          sinceEvent,     \* ticks since the last moveend/zoomend event
          burstCalls,     \* timer-driven updateMarkers calls in the burst
          callsBeforeLast, \* those of them made before its latest event
          lastStep,       \* "data" when the last step set earthquakes
          \* a call of getEarthquakes of the earthquake service
          request,        \* the argument of the call
          servicePc,      \* where the call is
          response,       \* the status of the response to fetch, 0 before it
          promise         \* the promise the call returned

\* the arguments, locals and result of createClusterMarkers
callVars == <<earthquakes, bounds, zoom, pc, raised, markers, validFeatures, clusters>>

\* what a call of createClusterMarkers by itself leaves alone
componentVars ==
    <<loading, error, loads, mapLoaded, markersRef, onMap, updateTimeoutRef,
      timers, sinceEvent, burstCalls, callsBeforeLast, lastStep>>

serviceVars == <<request, servicePc, response, promise>>

restVars == <<calls, elements, componentVars, serviceVars>>

vars == <<callVars, restVars>>

---------------------------------------------------------------------------
(* JavaScript values                                                       *)

RECURSIVE Gcd(_, _)
Gcd(a, b) == IF b = 0 THEN a ELSE Gcd(b, a % b)

Abs(n) == IF n < 0 THEN -n ELSE n

Undef == <<"undefined", 0>>
Null == <<"null", 0>>
NaN == <<"NaN", 0>>
Str(s) == <<"string", s>>
Arr(s) == <<"array", s>>
Obj(r) == <<"object", r>>
Bool(b) == <<"boolean", b>>

\* arr[i], with JavaScript's zero-based index
At(arr, i) ==
    IF arr[1] = "array" /\ i + 1 \in 1..Len(arr[2]) THEN arr[2][i + 1] ELSE Undef

\* the number n/d, kept in lowest terms with a positive denominator
Frac(n, d) ==
    LET g == Gcd(Abs(n), Abs(d))
        s == IF d < 0 THEN -1 ELSE 1
    IN  <<"number", <<(s * n) \div g, (s * d) \div g>>>>

Num(n) == <<"number", <<n, 1>>>>

IsNum(v) == v[1] = "number"
IsArray(v) == v[1] = "array"
Items(v) == v[2]

\* the integer held by a whole number
IntOf(v) == v[2][1]

\* ToBoolean
Truthy(v) ==
    CASE v[1] = "undefined" -> FALSE
      [] v[1] = "null" -> FALSE
      [] v[1] = "NaN" -> FALSE
      [] v[1] = "number" -> v[2][1] # 0
      [] v[1] = "string" -> v[2] # ""
      [] v[1] = "boolean" -> v[2]
      [] OTHER -> TRUE

\* v == null
Nullish(v) == v[1] \in {"undefined", "null"}

\* a || b
JsOr(a, b) == IF Truthy(a) THEN a ELSE b

\* ToNumber of the values arithmetic meets here
ToNumber(v) ==
    CASE v[1] = "number" -> v
      [] v[1] = "null" -> Num(0)
      [] v[1] = "string" /\ v[2] = "" -> Num(0)
      [] OTHER -> NaN

JsMul(a, b) ==
    LET x == ToNumber(a)
        y == ToNumber(b)
    IN  IF IsNum(x) /\ IsNum(y)
        THEN Frac(x[2][1] * y[2][1], x[2][2] * y[2][2])
        ELSE NaN

\* a + b on numeric operands
JsAdd(a, b) ==
    LET x == ToNumber(a)
        y == ToNumber(b)
    IN  IF IsNum(x) /\ IsNum(y)
        THEN Frac(x[2][1] * y[2][2] + y[2][1] * x[2][2], x[2][2] * y[2][2])
        ELSE NaN

\* a / b; 0/0 is NaN, and a division of a non-zero number by zero an
\* infinity, which no computation here goes on to use as a number
JsDiv(a, b) ==
    LET x == ToNumber(a)
        y == ToNumber(b)
    IN  IF IsNum(x) /\ IsNum(y)
        THEN IF y[2][1] = 0
             THEN IF x[2][1] = 0 THEN NaN ELSE <<"Infinity", 0>>
             ELSE Frac(x[2][1] * y[2][2], x[2][2] * y[2][1])
        ELSE NaN

\* obj.name on an object held as a record
Prop(obj, name) == IF name \in DOMAIN obj THEN obj[name] ELSE Undef

\* Math.floor
MathFloor(v) ==
    LET x == ToNumber(v)
    IN  IF IsNum(x) THEN Num(x[2][1] \div x[2][2]) ELSE x

---------------------------------------------------------------------------
(* Features.  A feature is null or an object; feature.geometry and         *)
(* feature.properties are objects or missing.                              *)

Properties(mag, place, time, pid, url) ==
    [mag |-> mag, place |-> place, time |-> time, id |-> pid, url |-> url]

Feature(id, type, gtype, coords, props) ==
    [exists |-> TRUE, id |-> id, type |-> type,
     hasGeometry |-> TRUE, gtype |-> gtype, coordinates |-> coords,
     hasProperties |-> TRUE, properties |-> props]

NullFeature ==
    [exists |-> FALSE, id |-> Undef, type |-> Undef,
     hasGeometry |-> FALSE, gtype |-> Undef, coordinates |-> Undef,
     hasProperties |-> FALSE, properties |-> [mag |-> Undef]]

\* feature.geometry?.type
GeometryType(f) == IF f.hasGeometry THEN f.gtype ELSE Undef

\* feature.properties?.name
PropertyOf(f, name) == IF f.hasProperties THEN Prop(f.properties, name) ELSE Undef

\* ValidFeature with the length test loosened to "at least a pair"
ValidFeatureAnyLength(f) ==
    /\ f.exists
    /\ f.type = Str("Feature")
    /\ GeometryType(f) = Str("Point")
    /\ IsArray(f.coordinates)
    /\ Len(Items(f.coordinates)) >= 2
    /\ ~Nullish(PropertyOf(f, "mag"))
    /\ Truthy(PropertyOf(f, "place"))
    /\ Truthy(PropertyOf(f, "time"))

\* the arrow function handed to earthquakes.filter
ValidFeature(f) ==
    /\ f.exists
    /\ f.type = Str("Feature")
    /\ GeometryType(f) = Str("Point")
    /\ IsArray(f.coordinates)
    /\ Len(Items(f.coordinates)) = 3
    /\ ~Nullish(PropertyOf(f, "mag"))
    /\ Truthy(PropertyOf(f, "place"))
    /\ Truthy(PropertyOf(f, "time"))

\* Filter that passes over the first element it is given
FilterAfterFirst(s, i) ==
    IF i > Len(s) THEN <<>> ELSE SelectSeq(SubSeq(s, i + 1, Len(s)), ValidFeature)

\* Array.prototype.filter
RECURSIVE Filter(_, _)
Filter(s, i) ==
    IF i > Len(s) THEN <<>>
    ELSE IF ValidFeature(s[i]) THEN <<s[i]>> \o Filter(s, i + 1)
    ELSE Filter(s, i + 1)

\* validFeatures without the filter
ValidFeaturesUnfiltered(list) == list

ValidFeatures(list) == Filter(list, 1)

\* formatDate: the timestamp rendered as a date string
formatDate(t) == <<"dateString", t>>

---------------------------------------------------------------------------
(* The Supercluster index, as createClusterMarkers configures it.          *)

Radius == 60
MaxZoom == 16
MinZoom == 0
\* the library's defaults for the options the call does not set
Extent == 512
MinPoints == 2
\* the zoom a node carries until a level visits it (Infinity)
Unvisited == 99
\* index.getLeaves(cluster_id, 10)
LeafLimit == 10

RECURSIVE Pow2(_)
Pow2(n) == IF n = 0 THEN 1 ELSE 2 * Pow2(n - 1)

WorldSize == Extent * Pow2(MaxZoom)
Half == WorldSize \div 2

\* longitude and latitude to the projected plane, and back
lngX(lng) == lng + Half
latY(lat) ==
    IF Half - lat < 0 THEN 0
    ELSE IF Half - lat > WorldSize THEN WorldSize
    ELSE Half - lat
xLng(x) == x - Half
yLat(y) == Half - y

\* RadiusAt with radius: 6
RadiusAtSix(z) == 6 * Pow2(MaxZoom - z)

\* the clustering radius at a zoom: radius / (extent * 2^zoom) of the world
RadiusAt(z) == Radius * Pow2(MaxZoom - z)

\* sqDist(a, b) <= r * r, decided without forming the squares when the
\* coordinate differences settle it
Within(ax, ay, bx, by, r) ==
    LET dx == Abs(ax - bx)
        dy == Abs(ay - by)
    IN  IF dx > r \/ dy > r THEN FALSE
        ELSE IF dx + dy <= r THEN TRUE
        ELSE dx * dx + dy * dy <= r * r

\* a sequence given as a function, as a tuple
Seal(s) == SubSeq(s, 1, Len(s))

\* Op(v), with v computed once
Once(v, Op(_)) == CHOOSE r \in {Op(x) : x \in {v}} : TRUE

Indices(n) == Seal([k \in 1..n |-> k])

\* the map option: the properties a cluster starts from
MapProps(props) ==
    [mag |-> Prop(props, "mag"),
     time |-> Prop(props, "time"),
     place |-> Prop(props, "place"),
     depth |-> JsOr(Prop(props, "depth"), Num(0)),
     id |-> Prop(props, "id")]

\* the reduce option: acc.count is read from the accumulator, which is the
\* object the map option built
Reduce(acc, props) ==
    LET mag == JsDiv(JsAdd(JsMul(Prop(acc, "mag"), Prop(acc, "count")),
                           Prop(props, "mag")),
                     JsAdd(Prop(acc, "count"), Num(1)))
        depth == JsDiv(JsAdd(JsMul(Prop(acc, "depth"), Prop(acc, "count")),
                             JsOr(Prop(props, "depth"), Num(0))),
                       JsAdd(Prop(acc, "count"), Num(1)))
    IN  [acc EXCEPT !.mag = mag, !.depth = depth]

\* the node index.load makes of point i (zero-based) of the loaded list
PointNode(f, i) ==
    [x |-> lngX(IntOf(At(f.coordinates, 0))),
     y |-> latY(IntOf(At(f.coordinates, 1))),
     zoom |-> Unvisited, id |-> i, parent |-> -1, numPoints |-> 1,
     props |-> [mag |-> Undef]]

\* _map: a cluster's accumulated properties, or the mapped properties of a point
NodeProps(points, node) ==
    IF node.numPoints > 1 THEN node.props
    ELSE MapProps(points[node.id + 1].properties)

\* tree.within: the nodes within r of node i, in index order (the k-d tree
\* leaves fewer than nodeSize = 64 nodes in the order they were added)
Neighbours(data, i, r) ==
    SelectSeq(Indices(Len(data)),
              LAMBDA k : Within(data[i].x, data[i].y, data[k].x, data[k].y, r))

RECURSIVE SumPoints(_, _, _)
SumPoints(data, ks, j) ==
    IF j > Len(ks) THEN 0 ELSE data[ks[j]].numPoints + SumPoints(data, ks, j + 1)

RECURSIVE SumX(_, _, _)
SumX(data, ks, j) ==
    IF j > Len(ks) THEN 0
    ELSE data[ks[j]].x * data[ks[j]].numPoints + SumX(data, ks, j + 1)

RECURSIVE SumY(_, _, _)
SumY(data, ks, j) ==
    IF j > Len(ks) THEN 0
    ELSE data[ks[j]].y * data[ks[j]].numPoints + SumY(data, ks, j + 1)

RECURSIVE ReduceAll(_, _, _, _, _)
ReduceAll(points, data, acc, ks, j) ==
    IF j > Len(ks) THEN acc
    ELSE ReduceAll(points, data, Reduce(acc, NodeProps(points, data[ks[j]])), ks, j + 1)

\* the id of the cluster that node i (one-based) starts at a zoom
ClusterId(i, z, n) == (i - 1) * 32 + (z + 1) + n

\* _cluster: one pass over the nodes of the level above
RECURSIVE ClusterLoop(_, _, _, _, _)
ClusterLoop(points, data, next, i, z) ==
    IF i > Len(data) THEN [data |-> data, next |-> next]
    ELSE IF data[i].zoom <= z THEN ClusterLoop(points, data, next, i + 1, z)
    ELSE
      LET d1 == [data EXCEPT ![i].zoom = z]
          live == SelectSeq(Neighbours(d1, i, RadiusAt(z)), LAMBDA k : d1[k].zoom > z)
          origin == d1[i].numPoints
          numPoints == origin + SumPoints(d1, live, 1)
          id == ClusterId(i, z, Len(points))
          d2 == Seal([k \in 1..Len(d1) |->
                   IF \E j \in 1..Len(live) : live[j] = k
                   THEN [d1[k] EXCEPT !.zoom = z, !.parent = id]
                   ELSE d1[k]])
      IN  IF numPoints > origin /\ numPoints >= MinPoints
          THEN ClusterLoop(points,
                 [d2 EXCEPT ![i].parent = id],
                 Append(next,
                   [x |-> (d1[i].x * origin + SumX(d1, live, 1)) \div numPoints,
                    y |-> (d1[i].y * origin + SumY(d1, live, 1)) \div numPoints,
                    zoom |-> Unvisited, id |-> id, parent |-> -1,
                    numPoints |-> numPoints,
                    props |-> ReduceAll(points, d1, NodeProps(points, d1[i]), live, 1)]),
                 i + 1, z)
          ELSE IF numPoints > 1
          THEN ClusterLoop(points,
                 Seal([k \in 1..Len(d1) |->
                    IF \E j \in 1..Len(live) : live[j] = k
                    THEN [d1[k] EXCEPT !.zoom = z] ELSE d1[k]]),
                 Append(next, d1[i])
                   \o Seal([j \in 1..Len(live) |-> [d1[live[j]] EXCEPT !.zoom = z]]),
                 i + 1, z)
          ELSE ClusterLoop(points, d1, Append(next, d1[i]), i + 1, z)

\* index.load: the tree of every zoom from maxZoom + 1 down to minZoom
RECURSIVE BuildTrees(_, _, _, _)
BuildTrees(points, trees, tree, z) ==
    IF z < MinZoom THEN (z + 1 :> tree) @@ trees
    ELSE LET c == ClusterLoop(points, tree, <<>>, 1, z)
         IN  BuildTrees(points, (z + 1 :> c.data) @@ trees, c.next, z - 1)

Load(points) ==
    [points |-> points,
     trees |-> BuildTrees(points, <<>>,
                          Seal([i \in 1..Len(points) |-> PointNode(points[i], i - 1)]),
                          MaxZoom)]

\* getClusterJSON: the node the index returns for a cluster
ClusterJSON(node) ==
    [id |-> Num(node.id),
     properties |->
        [cluster |-> Bool(TRUE),
         cluster_id |-> Num(node.id),
         point_count |-> Num(node.numPoints),
         point_count_abbreviated |-> Num(node.numPoints)] @@ node.props,
     geometry |-> [coordinates |-> Arr(<<Num(xLng(node.x)), Num(yLat(node.y))>>)]]

\* a loaded feature, as the index hands it back
FeatureJSON(f) ==
    [id |-> f.id, properties |-> f.properties,
     geometry |-> [coordinates |-> f.coordinates]]

NodeJSON(points, node) ==
    IF node.numPoints > 1 THEN ClusterJSON(node) ELSE FeatureJSON(points[node.id + 1])

Min(a, b) == IF a < b THEN a ELSE b
Max(a, b) == IF a > b THEN a ELSE b

\* LimitZoom clamped to maxZoom instead of maxZoom + 1
LimitZoomToMax(z) == Max(MinZoom, Min(IntOf(MathFloor(z)), MaxZoom))

\* _limitZoom, for a zoom that is a number: Math.floor(+z), clamped
LimitZoom(z) == Max(MinZoom, Min(IntOf(MathFloor(z)), MaxZoom + 1))

\* ((lng + 180) % 360 + 360) % 360 - 180
WrapLng(lng) == ((lng + Half) % WorldSize) - Half

\* tree.range: the nodes inside the box, in index order
Range(data, minX, minY, maxX, maxY) ==
    SelectSeq(data, LAMBDA n : n.x >= minX /\ n.x <= maxX /\ n.y >= minY /\ n.y <= maxY)

\* index.getClusters(bbox, zoom); bbox = <<west, south, east, north>>
RECURSIVE GetClusters(_, _, _)
GetClusters(index, bbox, z) ==
    LET minLng == WrapLng(bbox[1])
        minLat == Max(-Half, Min(Half, bbox[2]))
        maxLng == IF bbox[3] = Half THEN Half ELSE WrapLng(bbox[3])
        maxLat == Max(-Half, Min(Half, bbox[4]))
        whole == bbox[3] - bbox[1] >= WorldSize
        lo == IF whole THEN -Half ELSE minLng
        hi == IF whole THEN Half ELSE maxLng
        hits == Range(index.trees[LimitZoom(z)], lngX(lo), latY(maxLat), lngX(hi), latY(minLat))
    IN  IF ~whole /\ minLng > maxLng
        THEN GetClusters(index, <<minLng, minLat, Half, maxLat>>, z)
             \o GetClusters(index, <<-Half, minLat, maxLng, maxLat>>, z)
        ELSE Seal([j \in 1..Len(hits) |-> NodeJSON(index.points, hits[j])])

\* getChildren: the nodes of the origin level whose parent is the cluster
GetChildren(index, clusterId) ==
    LET n == Len(index.points)
        originId == (clusterId - n) \div 32
        originZoom == (clusterId - n) % 32
        known == originZoom \in DOMAIN index.trees
                 /\ originId < Len(index.trees[originZoom])
        data == index.trees[originZoom]
        near == Neighbours(data, originId + 1, RadiusAt(originZoom - 1))
        kids == SelectSeq(near, LAMBDA k : data[k].parent = clusterId)
    IN  IF ~known THEN [threw |-> TRUE, children |-> <<>>]
        ELSE IF Len(kids) = 0 THEN [threw |-> TRUE, children |-> <<>>]
        ELSE [threw |-> FALSE, children |-> Seal([j \in 1..Len(kids) |-> data[kids[j]]])]

\* _appendLeaves with offset 0: the leaves under a cluster, depth first, up
\* to the limit
RECURSIVE AppendLeaves(_, _, _, _)
RECURSIVE AppendChildren(_, _, _, _, _)
AppendLeaves(index, result, clusterId, limit) ==
    LET c == GetChildren(index, clusterId)
    IN  IF c.threw THEN [threw |-> TRUE, result |-> result]
        ELSE AppendChildren(index, result, c.children, 1, limit)

AppendChildren(index, result, children, j, limit) ==
    IF j > Len(children) THEN [threw |-> FALSE, result |-> result]
    ELSE LET child == children[j]
             r == IF child.numPoints > 1
                  THEN AppendLeaves(index, result, child.id, limit)
                  ELSE [threw |-> FALSE,
                        result |-> Append(result, FeatureJSON(index.points[child.id + 1]))]
         IN  IF r.threw \/ Len(r.result) = limit THEN r
             ELSE AppendChildren(index, r.result, children, j + 1, limit)

\* index.getLeaves(clusterId, limit)
GetLeaves(index, clusterId, limit) == AppendLeaves(index, <<>>, clusterId, limit)

---------------------------------------------------------------------------
(* createClusterMarkers                                                    *)

\* SingleEarthquake with the depth read from the properties
SingleEarthquakeDepthProp(cluster) ==
    [id |-> JsOr(Prop(cluster.properties, "id"), cluster.id),
     magnitude |-> Prop(cluster.properties, "mag"),
     location |-> Prop(cluster.properties, "place"),
     coordinates |-> cluster.geometry.coordinates,
     depth |-> Prop(cluster.properties, "depth"),
     time |-> formatDate(Prop(cluster.properties, "time")),
     timestamp |-> Prop(cluster.properties, "time"),
     url |-> Prop(cluster.properties, "url")]

\* the earthquake object of a single descriptor
SingleEarthquake(cluster) ==
    [id |-> JsOr(Prop(cluster.properties, "id"), cluster.id),
     magnitude |-> Prop(cluster.properties, "mag"),
     location |-> Prop(cluster.properties, "place"),
     coordinates |-> cluster.geometry.coordinates,
     depth |-> At(cluster.geometry.coordinates, 2),
     time |-> formatDate(Prop(cluster.properties, "time")),
     timestamp |-> Prop(cluster.properties, "time"),
     url |-> Prop(cluster.properties, "url")]

SingleDescriptor(cluster) ==
    [type |-> "single",
     earthquake |-> SingleEarthquake(cluster),
     coordinates |-> cluster.geometry.coordinates,
     magnitude |-> Prop(cluster.properties, "mag"),
     depth |-> At(cluster.geometry.coordinates, 2)]

\* one entry of a cluster descriptor's points
LeafPoint(leaf) ==
    [id |-> Prop(leaf.properties, "id"),
     magnitude |-> Prop(leaf.properties, "mag"),
     location |-> Prop(leaf.properties, "place"),
     coordinates |-> leaf.geometry.coordinates,
     depth |-> At(leaf.geometry.coordinates, 2),
     time |-> formatDate(Prop(leaf.properties, "time")),
     timestamp |-> Prop(leaf.properties, "time"),
     url |-> Prop(leaf.properties, "url")]

\* points.reduce((sum, p) => sum + p[field], 0)
RECURSIVE SumField(_, _, _)
SumField(points, field, j) ==
    IF j = 0 THEN Num(0)
    ELSE JsAdd(SumField(points, field, j - 1), points[j][field])

\* properties[name] || mean of the points' field
Average(cluster, name, points, field) ==
    JsOr(Prop(cluster.properties, name),
         JsDiv(SumField(points, field, Len(points)), Num(Len(points))))

ClusterDescriptor(cluster, leaves) ==
    LET points == Seal([j \in 1..Len(leaves) |-> LeafPoint(leaves[j])])
    IN  [type |-> "cluster",
         coordinates |-> cluster.geometry.coordinates,
         count |-> Prop(cluster.properties, "point_count"),
         avgMagnitude |-> Average(cluster, "mag", points, "magnitude"),
         avgDepth |-> Average(cluster, "depth", points, "depth"),
         points |-> points]

\* bounds.getWest(), ... : the bbox, or a throw when bounds has no such method
HasGetters(b) == b[1] = "bounds"
Bbox(b) == <<b[2].west, b[2].south, b[2].east, b[2].north>>

\* ZoomArg with Math.ceil
ZoomArgCeil(z) ==
    LET x == ToNumber(z)
    IN  IF IsNum(x) THEN Num(-((-x[2][1]) \div x[2][2])) ELSE x

\* the zoom handed to the index
ZoomArg(z) == MathFloor(z)

\* LeavesOf with the cluster's point count as the limit
LeavesOfAll(index, c) ==
    GetLeaves(index, IntOf(c.properties.cluster_id), IntOf(c.properties.point_count))

\* index.getLeaves(cluster.properties.cluster_id, 10)
LeavesOf(index, c) == GetLeaves(index, IntOf(c.properties.cluster_id), LeafLimit)

\* clusters.map(...): the descriptors, or a throw out of getLeaves
RECURSIVE Describe(_, _, _)
Describe(index, cs, j) ==
    IF j > Len(cs) THEN [threw |-> FALSE, value |-> <<>>]
    ELSE LET c == cs[j]
             rest == Describe(index, cs, j + 1)
         IN  IF ~Truthy(Prop(c.properties, "cluster"))
             THEN [threw |-> rest.threw, value |-> <<SingleDescriptor(c)>> \o rest.value]
             ELSE LET l == LeavesOf(index, c)
                  IN  [threw |-> l.threw \/ rest.threw,
                       value |-> <<ClusterDescriptor(c, l.result)>> \o rest.value]

\* NewIndex with the index of the previous call kept when there is one
KeptIndex(valid) == IF validFeatures # <<>> THEN Load(validFeatures) ELSE Load(valid)

\* const index = new Supercluster({...}); index.load(validFeatures)
NewIndex(valid) == Load(valid)

Thrown == [threw |-> TRUE, value |-> <<>>, valid |-> <<>>, clusters |-> <<>>]

\* the body of the try block
TryBody(list, b, z) ==
    LET valid == ValidFeatures(list)
        index == NewIndex(valid)
        zi == ZoomArg(z)
        cs == GetClusters(index, Bbox(b), zi)
        ds == Describe(index, cs, 1)
    IN  IF Len(valid) = 0
        THEN [threw |-> FALSE, value |-> <<>>, valid |-> valid, clusters |-> <<>>]
        ELSE IF ~HasGetters(b) THEN [Thrown EXCEPT !.valid = valid]
        ELSE IF ~IsNum(zi) THEN [Thrown EXCEPT !.valid = valid]
        ELSE IF ds.threw THEN [Thrown EXCEPT !.valid = valid, !.clusters = cs]
        ELSE [threw |-> FALSE, value |-> ds.value, valid |-> valid, clusters |-> cs]

\* Caught without the catch
Uncaught(r) == r

\* try { ... } catch (error) { return []; }
Caught(r) == IF r.threw THEN [r EXCEPT !.threw = FALSE, !.value = <<>>] ELSE r

createClusterMarkers(eq, b, z) ==
    IF ~Truthy(eq) \/ ~IsArray(eq) \/ Len(Items(eq)) = 0
    THEN [threw |-> FALSE, value |-> <<>>, valid |-> <<>>, clusters |-> <<>>]
    ELSE Caught(TryBody(Items(eq), b, z))

---------------------------------------------------------------------------
(* createMarkerElement and getMagnitudeColor                               *)

\* a >= b: false when either side is not a number
JsGe(a, b) ==
    LET x == ToNumber(a)
        y == ToNumber(b)
    IN  IsNum(x) /\ IsNum(y) /\ x[2][1] * y[2][2] >= y[2][1] * x[2][2]

\* Math.max and Math.min of two values: NaN when either is not a number
MathMax(a, b) ==
    LET x == ToNumber(a)
        y == ToNumber(b)
    IN  IF ~IsNum(x) \/ ~IsNum(y) THEN NaN ELSE IF JsGe(x, y) THEN x ELSE y

MathMin(a, b) ==
    LET x == ToNumber(a)
        y == ToNumber(b)
    IN  IF ~IsNum(x) \/ ~IsNum(y) THEN NaN ELSE IF JsGe(x, y) THEN y ELSE x

\* getMagnitudeColor with exclusive lower bounds
getMagnitudeColorExclusive(magnitude) ==
    IF JsGe(magnitude, Num(7)) /\ magnitude # Num(7) THEN "#d32f2f"
    ELSE IF JsGe(magnitude, Num(6)) /\ magnitude # Num(6) THEN "#f57c00"
    ELSE IF JsGe(magnitude, Num(5)) /\ magnitude # Num(5) THEN "#ffa000"
    ELSE IF JsGe(magnitude, Num(4)) /\ magnitude # Num(4) THEN "#fbc02d"
    ELSE "#7cb342"

getMagnitudeColor(magnitude) ==
    IF JsGe(magnitude, Num(7)) THEN "#d32f2f"
    ELSE IF JsGe(magnitude, Num(6)) THEN "#f57c00"
    ELSE IF JsGe(magnitude, Num(5)) THEN "#ffa000"
    ELSE IF JsGe(magnitude, Num(4)) THEN "#fbc02d"
    ELSE "#7cb342"

\* SingleSize with magnitude * 4
SingleSizeTimesFour(magnitude) == MathMax(Num(20), JsMul(magnitude, Num(4)))

\* Math.max(20, data.magnitude * 5)
SingleSize(magnitude) == MathMax(Num(20), JsMul(magnitude, Num(5)))

\* ClusterSize without the upper clamp
ClusterSizeUnclamped(count) == MathMax(Num(30), count)

\* Math.min(Math.max(30, data.count), 60)
ClusterSize(count) == MathMin(MathMax(Num(30), count), Num(60))

\* the div element, as far as its class, size, colour and text go
createMarkerElement(type, data) ==
    IF type = "single"
    THEN [className |-> "earthquake-marker",
          size |-> SingleSize(Prop(data, "magnitude")),
          backgroundColor |-> getMagnitudeColor(Prop(data, "magnitude")),
          textContent |-> Undef]
    ELSE [className |-> "cluster-marker",
          size |-> ClusterSize(Prop(data, "count")),
          backgroundColor |-> getMagnitudeColor(Prop(data, "avgMagnitude")),
          textContent |-> Prop(data, "count")]

---------------------------------------------------------------------------
(* Inputs                                                                  *)

\* the longest feature list of the general specification
MaxFeatures == 3
\* the longest feature list of the validation specification
MaxShapes == 2
\* the features a swarm starts with, and the longest swarm
MaxHead == 2
MaxSwarm == 20
\* the longest feature list of the rendering and repeated-call specifications
MaxScene == 2
\* the most calls of the repeated-call specification
MaxCalls == 2

Point(lng, lat, depth) == Arr(<<Num(lng), Num(lat), Num(depth)>>)

\* a feature of the shape the USGS feed returns: the id is on the feature,
\* not in its properties
Quake(id, lng, lat, depth, mag, place) ==
    Feature(Str(id), Str("Feature"), Str("Point"), Point(lng, lat, depth),
            Properties(mag, Str(place), Num(1700000000), Undef, Str("https://usgs/" \o id)))

QuakeA == Quake("us1", 0, 0, 10, Num(5), "Tonga")
\* within the zoom-16 radius of QuakeA, and carrying an id in its properties
QuakeB ==
    [Quake("us2", 40, 40, 0, Num(6), "Fiji") EXCEPT !.properties.id = Str("p2")]
\* 110 units from QuakeB and 150 from QuakeA: joins them from zoom 14 down
QuakeC == Quake("us3", 150, 0, 35, Frac(9, 2), "Samoa")
\* joins the others from zoom 2 down
QuakeD == Quake("us4", 600000, 300000, 20, Num(7), "Chile")

\* a great earthquake, of magnitude 9.1
QuakeNine == Quake("us9", 0, 0, 29, Frac(91, 10), "Tohoku")

\* a feature whose latitude is beyond the pole: it passes the filter and
\* the index puts it on the edge of the plane, but no LngLat can hold it
QuakeOff == Quake("us5", 700000, Half + 1000, 15, Num(5), "Svalbard")

NoPlace == [QuakeA EXCEPT !.id = Str("bad1"), !.properties.place = Undef]

FeaturePool == {QuakeA, QuakeB, QuakeC, QuakeD, NoPlace}

\* one feature per way of failing, or just passing, a test of the filter
ShapePool ==
    {QuakeA, QuakeB, NoPlace, NullFeature,
     [QuakeA EXCEPT !.type = Str("FeatureCollection")],
     [QuakeA EXCEPT !.type = Undef],
     [QuakeA EXCEPT !.hasGeometry = FALSE],
     [QuakeA EXCEPT !.gtype = Str("Polygon")],
     [QuakeA EXCEPT !.coordinates = Undef],
     [QuakeA EXCEPT !.coordinates = Arr(<<Num(0), Num(0)>>)],
     [QuakeA EXCEPT !.coordinates = Arr(<<Num(0), Num(0), Num(10), Num(1)>>)],
     [QuakeA EXCEPT !.hasProperties = FALSE],
     [QuakeA EXCEPT !.properties.mag = Null],
     [QuakeA EXCEPT !.properties.mag = Undef],
     [QuakeA EXCEPT !.properties.mag = Num(0)],
     [QuakeA EXCEPT !.properties.place = Str("")],
     [QuakeA EXCEPT !.properties.place = Num(7)],
     [QuakeA EXCEPT !.properties.time = Num(0)],
     [QuakeA EXCEPT !.properties.time = Null],
     [QuakeA EXCEPT !.properties.time = Undef]}

\* the features a swarm starts with: a few units apart
SwarmPool == {QuakeA, QuakeB, [QuakeC EXCEPT !.coordinates = Point(20, 0, 35)]}

LngLatBounds(w, s, e, n) == <<"bounds", [west |-> w, south |-> s, east |-> e, north |-> n]>>

\* the whole world; a box around QuakeA..QuakeC; a box that crosses the
\* antimeridian westwards and still holds every pool point
WorldBounds == LngLatBounds(-Half, -Half, Half, Half)
LocalBounds == LngLatBounds(-1000, -1000, 1000, 1000)
WideBounds == LngLatBounds(-Half - 5000, -700000, 700000, 700000)

BoundsPool == {WorldBounds, LocalBounds, WideBounds, Null, Obj([zoom |-> Num(2)])}

ZoomPool == {Num(2), Frac(5, 2), Num(15), Frac(31, 2), Num(17), Frac(-1, 2), Undef}

---------------------------------------------------------------------------
(* The Map component: its state after the first render.                    *)

\* setTimeout(..., 100), in milliseconds, and the length of a tick of the
\* model's clock
DebounceMs == 100
TickMs == 50
DelayTicks == DebounceMs \div TickMs

\* sinceEvent before any event
NoEvent == DelayTicks + 1

ComponentInit ==
    /\ loading = TRUE
    /\ error = Null
    /\ loads = <<>>
    /\ mapLoaded = FALSE
    /\ markersRef = <<>>
    /\ onMap = <<>>
    /\ updateTimeoutRef = Null
    /\ timers = {}
    /\ sinceEvent = NoEvent
    /\ burstCalls = 0
    /\ callsBeforeLast = 0
    /\ lastStep = "other"

\* no call of getEarthquakes made yet, and no response (status 0)
ServiceInit ==
    /\ request = [startTime |-> Undef, endTime |-> Undef, minMagnitude |-> Undef]
    /\ servicePc = "idle"
    /\ response = 0
    /\ promise = [state |-> "none", value |-> Undef]

---------------------------------------------------------------------------
(* The state machine: a caller builds the arguments and calls.             *)

Init ==
    /\ earthquakes \in {Arr(<<>>), Null, Undef, Obj([features |-> Arr(<<>>)])}
    /\ bounds = WorldBounds
    /\ zoom = Num(2)
    /\ pc = "idle"
    /\ raised = FALSE
    /\ markers = <<>>
    /\ validFeatures = <<>>
    /\ clusters = <<>>
    /\ calls = 0
    /\ elements = <<>>
    /\ ComponentInit
    /\ ServiceInit

\* the caller appends a feature to the list it will pass
Extend(f) ==
    /\ pc = "idle"
    /\ IsArray(earthquakes)
    /\ earthquakes' = Arr(Append(Items(earthquakes), f))
    /\ UNCHANGED <<bounds, zoom, pc, raised, markers, validFeatures, clusters>>
    /\ UNCHANGED restVars

Push ==
    \E f \in FeaturePool :
        /\ IsArray(earthquakes)
        /\ Len(Items(earthquakes)) < MaxFeatures
        /\ Extend(f)

\* createClusterMarkers(earthquakes, b, z): the arguments, and the locals
\* and result the call leaves
Invoke(b, z) ==
    LET r == createClusterMarkers(earthquakes, b, z)
    IN  /\ pc = "idle"
        /\ bounds' = b
        /\ zoom' = z
        /\ pc' = "returned"
        /\ raised' = r.threw
        /\ markers' = r.value
        /\ validFeatures' = r.valid
        /\ clusters' = r.clusters
        /\ UNCHANGED earthquakes

CallWith(b, z) == Invoke(b, z) /\ UNCHANGED restVars

Call == \E b \in BoundsPool, z \in ZoomPool : CallWith(b, z)

Next == Push \/ Call

Spec == Init /\ [][Next]_vars

\* the validation specification: lists of every shape of feature
PushShape ==
    \E f \in ShapePool :
        /\ IsArray(earthquakes)
        /\ Len(Items(earthquakes)) < MaxShapes
        /\ Extend(f)

CallWorld == \E z \in {Num(15), Num(17)} : CallWith(WorldBounds, z)

NextShapes == PushShape \/ CallWorld

SpecShapes == Init /\ [][NextShapes]_vars

\* the swarm specification: a few nearby events, then aftershocks at the
\* place of the last one
PushHead ==
    \E f \in SwarmPool :
        /\ IsArray(earthquakes)
        /\ Len(Items(earthquakes)) < MaxHead
        /\ Extend(f)

Aftershock ==
    /\ IsArray(earthquakes)
    /\ Len(Items(earthquakes)) \in 1..(MaxSwarm - 1)
    /\ LET n == Len(Items(earthquakes))
       IN  Extend([Items(earthquakes)[n] EXCEPT !.id = Num(n + 1)])

CallSwarm ==
    \E b \in {WorldBounds, LocalBounds}, z \in {Num(2), Num(16), Num(17)} : CallWith(b, z)

NextSwarm == PushHead \/ Aftershock \/ CallSwarm

SpecSwarm == Init /\ [][NextSwarm]_vars

\* the element specification: createMarkerElement applied to descriptors of
\* every band and size, the last two elements kept
MagnitudePool ==
    {Num(-1), Num(0), Num(3), Frac(399, 100), Num(4), Frac(9, 2), Num(5),
     Frac(599, 100), Num(6), Frac(69, 10), Num(7), Frac(91, 10), NaN, Undef}

CountPool == {Num(2), Num(30), Num(45), Num(60), Num(61), Num(100)}

\* the averages a cluster descriptor is given here
AveragePool == {Num(5), Frac(69, 10), Num(7), NaN}

DataPool ==
    {[type |-> "single", data |-> [magnitude |-> m]] : m \in MagnitudePool}
    \cup {[type |-> "cluster", data |-> [count |-> c, avgMagnitude |-> m]] :
            c \in CountPool, m \in AveragePool}

InitElement == Init /\ earthquakes = Arr(<<>>)

CreateElement ==
    \E d \in DataPool :
        LET e == [type |-> d.type, data |-> d.data,
                  el |-> createMarkerElement(d.type, d.data)]
        IN  /\ elements' = IF Len(elements) = 2 THEN <<elements[2], e>>
                           ELSE Append(elements, e)
            /\ UNCHANGED <<callVars, calls, componentVars, serviceVars>>

NextElement == CreateElement

SpecElement == InitElement /\ [][NextElement]_vars

\* the rendering specification: updateMarkers' use of the two functions, a
\* call of createClusterMarkers and an element per descriptor
ScenePool == {QuakeNine, QuakeB, QuakeD, NoPlace}

\* a box that holds none of the pool's points
AwayBounds == LngLatBounds(5000, 5000, 9000, 9000)

PushScene ==
    \E f \in ScenePool :
        /\ IsArray(earthquakes)
        /\ Len(Items(earthquakes)) < MaxScene
        /\ Extend(f)

CallScene ==
    \E b \in {WorldBounds, LocalBounds, AwayBounds}, z \in {Num(15), Num(16), Num(17)} :
        CallWith(b, z)

\* markers.map(marker => createMarkerElement(marker.type, ...))
MarkerElements(ms) ==
    Seal([j \in 1..Len(ms) |->
            createMarkerElement(ms[j].type,
                IF ms[j].type = "single" THEN ms[j].earthquake ELSE ms[j])])

RenderMarkers ==
    /\ pc = "returned"
    /\ pc' = "rendered"
    /\ elements' = MarkerElements(markers)
    /\ UNCHANGED <<earthquakes, bounds, zoom, raised, markers, validFeatures, clusters>>
    /\ UNCHANGED <<calls, componentVars, serviceVars>>

NextScene == PushScene \/ CallScene \/ RenderMarkers

SpecScene == InitElement /\ [][NextScene]_vars

\* the repeated-call specification: the caller calls, goes on, extends its
\* list and calls again; what the previous call left behind stays in the
\* state
CallsPool == {QuakeA, QuakeB, QuakeD}

PushMore ==
    \E f \in CallsPool :
        /\ IsArray(earthquakes)
        /\ Len(Items(earthquakes)) < MaxScene
        /\ Extend(f)

CallCounted ==
    \E b \in {WorldBounds, LocalBounds}, z \in {Num(2), Num(17)} :
        /\ calls < MaxCalls
        /\ Invoke(b, z)
        /\ calls' = calls + 1
        /\ UNCHANGED <<elements, componentVars, serviceVars>>

\* the caller goes on after a call
Resume ==
    /\ pc = "returned"
    /\ calls < MaxCalls
    /\ pc' = "idle"
    /\ UNCHANGED <<earthquakes, bounds, zoom, raised, markers, validFeatures, clusters>>
    /\ UNCHANGED restVars

NextCalls == PushMore \/ CallCounted \/ Resume

SpecCalls == InitElement /\ [][NextCalls]_vars

---------------------------------------------------------------------------
(* The Map component.  A step is a whole callback: an event handler, a     *)
(* timer callback or the continuation of loadEarthquakes after its await,  *)
(* together with the render and the effects the state it sets brings.      *)

\* the most loadEarthquakes calls started
MaxLoads == 2
\* burstCalls counts up to this: "two or more"
CallCap == 2

\* what the variables of a createClusterMarkers call by itself hold
callLocals ==
    <<pc, raised, markers, validFeatures, clusters, calls, elements, serviceVars>>

ListA == <<QuakeA, QuakeB>>
ListD == <<QuakeD>>

\* what getRecentEarthquakes resolves with: data.features, undefined when
\* the body has none
ResponsePool == {Arr(ListA), Arr(ListD), Arr(<<>>), Undef}

\* the viewports the map is moved to: map.getBounds(), map.getZoom()
ViewPool == {<<WorldBounds, Num(2)>>, <<LocalBounds, Num(17)>>}

\* new mapboxgl.LngLat: a throw unless longitude and latitude are numbers
\* and the latitude is on the map
LngLatOk(c) ==
    /\ IsArray(c)
    /\ Len(Items(c)) >= 2
    /\ IsNum(At(c, 0)) /\ IsNum(At(c, 1))
    /\ Abs(IntOf(At(c, 1))) <= Half

\* the mapboxgl.Marker made for a descriptor
Marker(d) ==
    [lngLat |-> d.coordinates,
     element |-> createMarkerElement(d.type,
                    IF d.type = "single" THEN d.earthquake ELSE d)]

\* markers.map(...): the markers added to the map, until setLngLat throws
RECURSIVE Attach(_, _, _)
Attach(ms, j, made) ==
    IF j > Len(ms) THEN [threw |-> FALSE, made |-> made]
    ELSE IF ~Truthy(ms[j].coordinates) THEN Attach(ms, j + 1, made)
    ELSE IF ~LngLatOk(ms[j].coordinates) THEN [threw |-> TRUE, made |-> made]
    ELSE Attach(ms, j + 1, Append(made, Marker(ms[j])))

\* marker.remove() for one marker
RECURSIVE RemoveOne(_, _)
RemoveOne(attached, m) ==
    IF attached = <<>> THEN <<>>
    ELSE IF Head(attached) = m THEN Tail(attached)
    ELSE <<Head(attached)>> \o RemoveOne(Tail(attached), m)

\* clearMarkers: the map after every recorded marker is removed
RECURSIVE Cleared(_, _)
Cleared(attached, ref) ==
    IF ref = <<>> THEN attached
    ELSE Cleared(RemoveOne(attached, Head(ref)), Tail(ref))

\* updateMarkers, in a render whose earthquakes is list
updateMarkers(list, err) ==
    LET same == [ref |-> markersRef, onMap |-> onMap, error |-> err]
        empty == Cleared(onMap, markersRef)
        Added(a) ==
            IF a.threw
            THEN [ref |-> <<>>, onMap |-> empty \o a.made,
                  error |-> Str("Error displaying earthquake data")]
            ELSE [ref |-> a.made, onMap |-> empty \o a.made, error |-> err]
        Mapped(ms) ==
            IF Len(ms) = 0 THEN [ref |-> <<>>, onMap |-> empty, error |-> err]
            ELSE Once(Attach(ms, 1, <<>>), Added)
    IN  IF Len(list) = 0 THEN same
        ELSE IF ~mapLoaded THEN same
        ELSE Once(createClusterMarkers(Arr(list), bounds, zoom).value, Mapped)

\* loadEarthquakes up to its await, whatever days and minMagnitude it is
\* called with
StartLoad ==
    /\ Len(loads) < MaxLoads
    /\ loading' = TRUE
    /\ error' = Null
    /\ loads' = Append(loads, [status |-> "pending", data |-> Undef])
    /\ lastStep' = "other"
    /\ UNCHANGED <<earthquakes, bounds, zoom, callLocals>>
    /\ UNCHANGED <<mapLoaded, markersRef, onMap, updateTimeoutRef, timers,
                   sinceEvent, burstCalls, callsBeforeLast>>

\* the component after a render with a new list and the effect on it
Commit(list, result) ==
    \E u \in {result} :
        /\ earthquakes' = Arr(list)
        /\ error' = u.error
        /\ markersRef' = u.ref
        /\ onMap' = u.onMap

\* the rest of loadEarthquakes for load k, then the render: the cleanup of
\* the handler effect clears the pending timer, and the effect on
\* earthquakes calls updateMarkers on a loaded map with a list that is not
\* empty
Settle(k, status, data) ==
    LET ok == status = "resolved" /\ IsArray(data)
        list == IF ok THEN Items(data) ELSE <<>>
        err == IF ok THEN error ELSE Str("Failed to load earthquake data")
    IN  /\ k \in 1..Len(loads)
        /\ loads[k].status = "pending"
        /\ Commit(list, IF mapLoaded /\ Len(list) > 0
                           THEN updateMarkers(list, err)
                           ELSE [ref |-> markersRef, onMap |-> onMap, error |-> err])
        /\ loads' = [loads EXCEPT ![k].status = status, ![k].data = data]
        /\ loading' = FALSE
        /\ timers' = IF Truthy(updateTimeoutRef)
                     THEN {t \in timers : Num(t.id) # updateTimeoutRef}
                     ELSE timers
        /\ lastStep' = "data"
        /\ UNCHANGED <<bounds, zoom, callLocals>>
        /\ UNCHANGED <<mapLoaded, updateTimeoutRef, sinceEvent, burstCalls, callsBeforeLast>>

\* getRecentEarthquakes resolves
Resolve == \E k \in 1..MaxLoads, data \in ResponsePool : Settle(k, "resolved", data)

\* getRecentEarthquakes rejects
Reject == \E k \in 1..MaxLoads : Settle(k, "rejected", Undef)

\* the id setTimeout returns: one no pending timer and no reference holds
NewTimerId ==
    LET free == {i \in 1..3 : Num(i) # updateTimeoutRef /\ \A t \in timers : t.id # i}
    IN  CHOOSE i \in free : \A j \in free : i <= j

\* a moveend or zoomend event: the map is at a viewport, loaded or still
\* loading, and handleMapUpdate runs
MapEvent ==
    \E v \in ViewPool, l \in BOOLEAN :
        LET continues == sinceEvent < DelayTicks
        IN  /\ bounds' = v[1]
            /\ zoom' = v[2]
            /\ mapLoaded' = l
            /\ IF l
               THEN /\ timers' = {t \in timers : Num(t.id) # updateTimeoutRef}
                                   \cup {[id |-> NewTimerId, remaining |-> DelayTicks,
                                          list |-> Items(earthquakes)]}
                    /\ updateTimeoutRef' = Num(NewTimerId)
               ELSE UNCHANGED <<timers, updateTimeoutRef>>
            /\ sinceEvent' = 0
            /\ burstCalls' = IF continues THEN burstCalls ELSE 0
            /\ callsBeforeLast' = IF continues THEN burstCalls ELSE 0
            /\ lastStep' = "other"
            /\ UNCHANGED <<earthquakes, callLocals>>
            /\ UNCHANGED <<loading, error, loads, markersRef, onMap>>

\* the map finishes loading its style and tiles
TilesLoaded ==
    /\ ~mapLoaded
    /\ mapLoaded' = TRUE
    /\ lastStep' = "other"
    /\ UNCHANGED <<earthquakes, bounds, zoom, callLocals>>
    /\ UNCHANGED <<loading, error, loads, markersRef, onMap, updateTimeoutRef,
                   timers, sinceEvent, burstCalls, callsBeforeLast>>

\* a tick of the clock passes; a timer that is due runs first
Tick ==
    /\ \A t \in timers : t.remaining > 0
    /\ timers # {} \/ sinceEvent < DelayTicks
    /\ timers' = {[t EXCEPT !.remaining = @ - 1] : t \in timers}
    /\ sinceEvent' = IF sinceEvent < DelayTicks THEN sinceEvent + 1 ELSE sinceEvent
    /\ lastStep' = "other"
    /\ UNCHANGED <<earthquakes, bounds, zoom, callLocals>>
    /\ UNCHANGED <<loading, error, loads, mapLoaded, markersRef, onMap,
                   updateTimeoutRef, burstCalls, callsBeforeLast>>

\* the timer callback: updateMarkers(); updateTimeoutRef.current = null
TimerFires ==
    \E t \in timers :
        \E u \in {IF t.remaining = 0 THEN updateMarkers(t.list, error) ELSE Null} :
            /\ t.remaining = 0
            /\ timers' = timers \ {t}
            /\ markersRef' = u.ref
            /\ onMap' = u.onMap
            /\ error' = u.error
            /\ updateTimeoutRef' = Null
            /\ burstCalls' = Min(burstCalls + 1, CallCap)
            /\ lastStep' = "other"
            /\ UNCHANGED <<earthquakes, bounds, zoom, callLocals>>
            /\ UNCHANGED <<loading, loads, mapLoaded, sinceEvent, callsBeforeLast>>

NextMap == StartLoad \/ Resolve \/ Reject \/ MapEvent \/ TilesLoaded \/ Tick \/ TimerFires

SpecMap == InitElement /\ [][NextMap]_vars

---------------------------------------------------------------------------
(* updateMarkers and clearMarkers called one after another, in any order,  *)
(* on lists of which one holds a feature that no marker can be placed at.  *)

\* the most markers on the map when updateMarkers is called
MaxAttached == 4

\* the lists the component renders with: the last two end with the feature
\* beyond the pole
MarkerLists ==
    {ListA, ListD, <<QuakeD, QuakeOff>>, <<QuakeA, QuakeD, QuakeOff>>}

\* the user moves the map: what map.getBounds() and map.getZoom() return
\* to the next updateMarkers
MoveMap ==
    \E v \in ViewPool :
        /\ bounds' = v[1]
        /\ zoom' = v[2]
        /\ lastStep' = "other"
        /\ UNCHANGED <<earthquakes, callLocals>>
        /\ UNCHANGED <<loading, error, loads, mapLoaded, markersRef, onMap,
                       updateTimeoutRef, timers, sinceEvent, burstCalls,
                       callsBeforeLast>>

\* clearMarkers called by itself: every recorded marker is removed from the
\* map and the record is emptied
clearMarkers ==
    /\ onMap' = Cleared(onMap, markersRef)
    /\ markersRef' = <<>>
    /\ lastStep' = "other"
    /\ UNCHANGED <<earthquakes, bounds, zoom, callLocals>>
    /\ UNCHANGED <<loading, error, loads, mapLoaded, updateTimeoutRef, timers,
                   sinceEvent, burstCalls, callsBeforeLast>>

\* updateMarkers called in a render whose earthquakes is list
CallUpdateMarkers ==
    \E list \in MarkerLists :
        /\ Len(onMap) < MaxAttached
        /\ Commit(list, updateMarkers(list, error))
        /\ lastStep' = "other"
        /\ UNCHANGED <<bounds, zoom, callLocals>>
        /\ UNCHANGED <<loading, loads, mapLoaded, updateTimeoutRef, timers,
                       sinceEvent, burstCalls, callsBeforeLast>>

NextMarkers == TilesLoaded \/ MoveMap \/ CallUpdateMarkers \/ clearMarkers

SpecMarkers == InitElement /\ [][NextMarkers]_vars

---------------------------------------------------------------------------
(* getEarthquakes of the earthquake service (src/unnamed/part_001).  A     *)
(* step is the code up to the next await.                                  *)

Error(message) == <<"error", message>>

\* a parameter with its default: the default applies to undefined only
DefaultTo(v, d) == IF v = Undef THEN d ELSE v

\* new Date(v) is a valid date: any number and null are times, a string is
\* one when it parses as a date
DateStrings == {"2011-03-11", "2011-03-12"}

ValidDate(v) ==
    CASE v[1] = "number" -> TRUE
      [] v[1] = "null" -> TRUE
      [] v[1] = "boolean" -> TRUE
      [] v[1] = "string" -> v[2] \in DateStrings
      [] OTHER -> FALSE

\* the code before the first await: building the URLSearchParams throws a
\* RangeError out of toISOString for an invalid date and a TypeError out of
\* minMagnitude.toString() for null
BuildParams(args) ==
    LET startTime == DefaultTo(args.startTime, Num(1000))
        endTime == DefaultTo(args.endTime, Num(2000))
        minMagnitude == DefaultTo(args.minMagnitude, Frac(9, 2))
    IN  IF ~ValidDate(startTime) THEN [threw |-> TRUE, error |-> Error("RangeError: Invalid time value")]
        ELSE IF ~ValidDate(endTime) THEN [threw |-> TRUE, error |-> Error("RangeError: Invalid time value")]
        ELSE IF minMagnitude = Null THEN [threw |-> TRUE, error |-> Error("TypeError")]
        ELSE [threw |-> FALSE, error |-> Undef]

\* ResponseOk with every status taken as a success
AnyStatusOk(status) == TRUE

\* response.ok
ResponseOk(status) == status \in 200..299

\* Rethrown with the error swallowed: the function returns undefined
Swallowed(err) == [state |-> "fulfilled", value |-> Undef]

\* catch (error) { console.error(...); throw error; }: the promise rejects
Rethrown(err) == [state |-> "rejected", value |-> err]

StartTimePool == {Undef, Num(86400), Str("2011-03-11"), Str("invalid"), NaN, Null}
EndTimePool == {Undef, Num(172800), Str("invalid")}
MinMagnitudePool == {Undef, Num(6), Null}
StatusPool == {200, 204, 400, 404, 500, 503}
BodyPool == {Obj([features |-> Arr(<<>>)]), Obj([features |-> Arr(ListA)])}

\* getEarthquakes(args), up to its first await
getEarthquakes ==
    \E st \in StartTimePool, et \in EndTimePool, mm \in MinMagnitudePool :
        LET args == [startTime |-> st, endTime |-> et, minMagnitude |-> mm]
            built == BuildParams(args)
        IN  /\ servicePc = "idle"
            /\ request' = args
            /\ IF built.threw
               THEN /\ promise' = Rethrown(built.error)
                    /\ servicePc' = "done"
               ELSE /\ promise' = [state |-> "pending", value |-> Undef]
                    /\ servicePc' = "fetch"
            /\ UNCHANGED <<callVars, calls, elements, componentVars, response>>

\* fetch resolves with a response
FetchResponds ==
    \E status \in StatusPool :
        /\ servicePc = "fetch"
        /\ response' = status
        /\ IF ~ResponseOk(status)
           THEN /\ promise' = Rethrown(Error("USGS API error"))
                /\ servicePc' = "done"
           ELSE /\ servicePc' = "json"
                /\ UNCHANGED promise
        /\ UNCHANGED <<callVars, calls, elements, componentVars, request>>

\* fetch rejects: no response
FetchRejects ==
    /\ servicePc = "fetch"
    /\ promise' = Rethrown(Error("TypeError: Failed to fetch"))
    /\ servicePc' = "done"
    /\ UNCHANGED <<callVars, calls, elements, componentVars, request, response>>

\* response.json() resolves with the parsed body
JsonResolves ==
    \E body \in BodyPool :
        /\ servicePc = "json"
        /\ promise' = [state |-> "fulfilled", value |-> body]
        /\ servicePc' = "done"
        /\ UNCHANGED <<callVars, calls, elements, componentVars, request, response>>

\* response.json() rejects: the body is not JSON
JsonRejects ==
    /\ servicePc = "json"
    /\ promise' = Rethrown(Error("SyntaxError"))
    /\ servicePc' = "done"
    /\ UNCHANGED <<callVars, calls, elements, componentVars, request, response>>

NextService == getEarthquakes \/ FetchResponds \/ FetchRejects \/ JsonResolves \/ JsonRejects

SpecService == InitElement /\ [][NextService]_vars

---------------------------------------------------------------------------
(* Properties                                                              *)

Returned == pc = "returned"

\* the features passed, when a list was passed
InputList == IF IsArray(earthquakes) THEN Items(earthquakes) ELSE <<>>

\* validity as the data model words it: a coordinate array of two or more
\* elements, a non-null magnitude, a non-empty place string, a non-null time
StatedValid(f) ==
    /\ f.exists
    /\ f.coordinates[1] = "array" /\ Len(f.coordinates[2]) >= 2
    /\ f.hasProperties
    /\ f.properties.mag[1] \notin {"null", "undefined"}
    /\ f.properties.place[1] = "string" /\ f.properties.place[2] # ""
    /\ f.properties.time[1] \notin {"null", "undefined"}

\* validity as amended: a Feature with a Point geometry of exactly three
\* coordinates, a non-null magnitude, a truthy place and a truthy time
Falsy == {Undef, Null, NaN, Num(0), Str(""), Bool(FALSE)}

AmendedValid(f) ==
    /\ f.exists
    /\ f.type = <<"string", "Feature">>
    /\ f.hasGeometry /\ f.gtype = <<"string", "Point">>
    /\ f.coordinates[1] = "array" /\ Len(f.coordinates[2]) = 3
    /\ f.hasProperties
    /\ f.properties.mag[1] \notin {"null", "undefined"}
    /\ f.properties.place \notin Falsy
    /\ f.properties.time \notin Falsy

ValidInputs == SelectSeq(InputList, AmendedValid)

\* the number of points a list of descriptors stands for
RECURSIVE Represented(_)
Represented(ms) ==
    IF ms = <<>> THEN 0
    ELSE (IF Head(ms).type = "single" THEN 1 ELSE Head(ms).count[2][1])
         + Represented(Tail(ms))

IsViewport == bounds[1] = "bounds" /\ zoom[1] = "number"

\* every valid input lies inside the bounds, taken as numbers
ViewHoldsAll ==
    \A i \in 1..Len(ValidInputs) :
        LET c == ValidInputs[i].coordinates[2]
        IN  /\ bounds[2].west <= c[1][2][1] /\ c[1][2][1] <= bounds[2].east
            /\ bounds[2].south <= c[2][2][1] /\ c[2][2][1] <= bounds[2].north

ClusterMarkers == {j \in 1..Len(markers) : markers[j].type = "cluster"}
SingleMarkers == {j \in 1..Len(markers) : markers[j].type = "single"}

\* C1: the call never lets an exception escape and returns a list; when the
\* body of the call throws (bounds without the getters, a zoom that is not a
\* number), the list returned is empty.
C1_NeverRaises ==
    Returned =>
        /\ ~raised
        /\ DOMAIN markers = 1..Len(markers)
        /\ (Len(InputList) > 0 /\ TryBody(InputList, bounds, zoom).threw
              => markers = <<>>)

\* a call with valid features and a null bounds returned the empty list
C1_Witness ==
    /\ Returned /\ ~raised
    /\ bounds = Null
    /\ Len(validFeatures) > 0
    /\ markers = <<>>

\* C2 (as stated): the validation step keeps exactly the features with a
\* coordinate array of two or more elements, a non-null magnitude, a
\* non-empty place string and a non-null time.
C2_StatedValidity == Returned => validFeatures = SelectSeq(InputList, StatedValid)

\* C2 (amended): the validation step keeps, in order, exactly the features
\* that are Features with a Point geometry of exactly three coordinates, a
\* non-null magnitude, a truthy place and a truthy time; with the whole
\* world in view every kept feature is represented in the output and no
\* other is.
C2_Validity ==
    Returned =>
        /\ validFeatures = ValidInputs
        /\ Represented(markers) = Len(ValidInputs)

\* a list holding a feature with only longitude and latitude, dropped, and
\* a valid feature, kept
C2_Witness ==
    /\ Returned
    /\ Len(InputList) = 2
    /\ StatedValid(InputList[1])
    /\ Len(InputList[1].coordinates[2]) = 2
    /\ validFeatures = <<InputList[2]>>
    /\ Len(markers) = 1

\* C3: for a viewport that holds every valid input point, the points the
\* output stands for (one per single, count per cluster) number exactly the
\* valid input features; none is lost to an invalid neighbour in the list,
\* and an empty or all-invalid list gives an empty output.
C3_CountConserved ==
    (Returned /\ IsViewport /\ ViewHoldsAll) =>
        /\ Represented(markers) = Len(ValidInputs)
        /\ (Len(ValidInputs) = 0 => markers = <<>>)

\* a feature without a place between two valid ones: two points represented
C3_Witness ==
    /\ Returned /\ IsViewport /\ ViewHoldsAll
    /\ Len(InputList) = 3
    /\ ~AmendedValid(InputList[2])
    /\ Len(ValidInputs) = 2
    /\ Represented(markers) = 2

\* every loaded point under a cluster of the index, however many
AllLeaves(cluster) ==
    GetLeaves(Load(validFeatures), cluster.properties.cluster_id[2][1],
              Len(validFeatures) + 1).result

\* the arithmetic mean of the magnitudes of a list of features
RECURSIVE SumMag(_)
SumMag(fs) ==
    IF fs = <<>> THEN Num(0) ELSE JsAdd(Head(fs).properties.mag, SumMag(Tail(fs)))

MeanMag(fs) == JsDiv(SumMag(fs), Num(Len(fs)))

\* C4: the magnitude average the index maintains for a cluster through the
\* reduce rule equals the arithmetic mean of the magnitudes of the points
\* merged into it.
C4_RunningAverageIsMean ==
    Returned =>
        \A j \in 1..Len(clusters) :
            Truthy(Prop(clusters[j].properties, "cluster")) =>
                Prop(clusters[j].properties, "mag") = MeanMag(AllLeaves(clusters[j]))

\* the mean of the magnitudes of a descriptor's sample points
RECURSIVE SumMagnitude(_)
SumMagnitude(ps) ==
    IF ps = <<>> THEN Num(0) ELSE JsAdd(Head(ps).magnitude, SumMagnitude(Tail(ps)))

SampleMean(ps) == JsDiv(SumMagnitude(ps), Num(Len(ps)))

\* C5: a cluster descriptor's avgMagnitude is the average the index
\* maintains whenever the index holds one for the cluster, and the mean of
\* the sample points only when it holds none.
C5_PrefersIndexAverage ==
    Returned =>
        \A j \in ClusterMarkers :
            LET held == Prop(clusters[j].properties, "mag")
            IN  IF held[1] \in {"undefined", "null"}
                THEN markers[j].avgMagnitude = SampleMean(markers[j].points)
                ELSE markers[j].avgMagnitude = held

\* C6: every cluster descriptor has count >= points.length and
\* points.length <= 10.
C6_CountAndCap ==
    Returned =>
        \A j \in ClusterMarkers :
            /\ markers[j].count[2][1] >= Len(markers[j].points)
            /\ Len(markers[j].points) <= 10

\* a cluster of more than ten points, with ten sample points
C6_Witness ==
    /\ Returned
    /\ \E j \in ClusterMarkers :
          /\ markers[j].count[2][1] > 10
          /\ Len(markers[j].points) = 10

\* the pixel radius of the claim at a zoom, in projected units
StatedRadius(z) == 60 * Pow2(16 - z)

\* the zoom level a zoom selects: its floor, not below 0
Level(z) == IF z[2][1] \div z[2][2] < 0 THEN 0 ELSE z[2][1] \div z[2][2]

\* every two valid inputs are within the radius of the queried zoom
AllNear ==
    \A i, k \in 1..Len(ValidInputs) :
        LET a == ValidInputs[i].coordinates[2]
            b == ValidInputs[k].coordinates[2]
            dx == a[1][2][1] - b[1][2][1]
            dy == a[2][2][1] - b[2][2][1]
            r == StatedRadius(Level(zoom))
        IN  Abs(dx) <= r /\ Abs(dy) <= r /\ (r > 30000 \/ dx * dx + dy * dy <= r * r)

\* C7: n >= 2 valid features, all within the clustering radius of one
\* another at the queried zoom (at most 16) and inside the viewport, give
\* exactly one descriptor, a cluster with count = n and min(n, 10) sample
\* points.
C7_OneCluster ==
    (Returned /\ IsViewport /\ ViewHoldsAll /\ Len(ValidInputs) >= 2
       /\ Level(zoom) <= 16 /\ AllNear) =>
        /\ Len(markers) = 1
        /\ markers[1].type = "cluster"
        /\ markers[1].count = Num(Len(ValidInputs))
        /\ Len(markers[1].points) = Min(Len(ValidInputs), 10)

\* twenty features a few units apart at zoom 2: one cluster of twenty with
\* ten sample points
C7_Witness ==
    /\ Returned /\ IsViewport /\ ViewHoldsAll
    /\ zoom = Num(2)
    /\ AllNear
    /\ Len(ValidInputs) = 20
    /\ Len(markers) = 1
    /\ markers[1].count = Num(20)
    /\ Len(markers[1].points) = 10

\* the values of a point feature that a descriptor's earthquake carries
SameEvent(e, f) ==
    /\ e.magnitude = f.properties.mag
    /\ e.location = f.properties.place
    /\ e.coordinates = f.coordinates
    /\ e.depth = f.coordinates[2][3]
    /\ e.timestamp = f.properties.time
    /\ e.time = <<"dateString", f.properties.time>>
    /\ e.url = f.properties.url

\* C8: every single descriptor stands for one valid input feature: its
\* magnitude, place, coordinates, depth, timestamp and url are that
\* feature's, its id is an id the feature carries, and the descriptor's own
\* coordinates, magnitude and depth repeat the feature's.
C8_SingleIsInput ==
    Returned =>
        \A j \in SingleMarkers :
            \E i \in 1..Len(ValidInputs) :
                LET f == ValidInputs[i]
                    d == markers[j]
                IN  /\ SameEvent(d.earthquake, f)
                    /\ d.earthquake.id \in {f.id, f.properties.id} \ {Undef}
                    /\ d.coordinates = f.coordinates
                    /\ d.magnitude = f.properties.mag
                    /\ d.depth = f.coordinates[2][3]

\* a call that returned a single descriptor beside a cluster descriptor
C8_Witness ==
    /\ Returned
    /\ SingleMarkers # {}
    /\ ClusterMarkers # {}

\* the id a single descriptor reports for a feature
SingleIdOf(f) == SingleDescriptor(FeatureJSON(f)).earthquake.id

\* C9: every sample point of a cluster descriptor carries the values of the
\* input feature it stands for, and its id is the identifier a single
\* descriptor reports for that feature.
C9_SamplePointIsInput ==
    Returned =>
        \A j \in ClusterMarkers :
            \A k \in 1..Len(markers[j].points) :
                \E i \in 1..Len(ValidInputs) :
                    /\ SameEvent(markers[j].points[k], ValidInputs[i])
                    /\ markers[j].points[k].id = SingleIdOf(ValidInputs[i])

\* the outcome of the call made with a zoom
OutcomeAt(z) ==
    LET r == createClusterMarkers(earthquakes, bounds, z)
    IN  <<r.threw, r.value>>

\* C10: the call made with zoom z returns what the call with floor(z)
\* returns.
C10_ZoomFloored ==
    Returned =>
        <<raised, markers>> =
            OutcomeAt(IF zoom[1] = "number"
                      THEN <<"number", <<zoom[2][1] \div zoom[2][2], 1>>>>
                      ELSE zoom)

\* a call at zoom 2.5 whose features cluster at zoom 2 and not at zoom 3
C10_Witness ==
    /\ Returned
    /\ zoom = Frac(5, 2)
    /\ Len(validFeatures) >= 2
    /\ Len(markers) = 1
    /\ Len(OutcomeAt(Num(3))[2]) >= 2

\* some two valid inputs are within the radius of the queried zoom
SomeNear ==
    \E i, k \in 1..Len(ValidInputs) :
        LET a == ValidInputs[i].coordinates[2]
            b == ValidInputs[k].coordinates[2]
            dx == a[1][2][1] - b[1][2][1]
            dy == a[2][2][1] - b[2][2][1]
            r == StatedRadius(Level(zoom))
        IN  /\ i < k
            /\ Abs(dx) <= r /\ Abs(dy) <= r
            /\ (r > 30000 \/ dx * dx + dy * dy <= r * r)

\* C11: clustering stops above zoom 16.  A call whose floored zoom is above
\* 16 returns single descriptors only, one per valid feature in the
\* viewport, even for features at the same coordinates; a call whose floored
\* zoom is at most 16, with two valid features within the clustering radius
\* of one another in view, returns a cluster descriptor.
C11_ClusteringUpToMaxZoom ==
    (Returned /\ IsViewport /\ ViewHoldsAll) =>
        IF Level(zoom) > 16
        THEN /\ ClusterMarkers = {}
             /\ Len(markers) = Len(ValidInputs)
        ELSE SomeNear => ClusterMarkers # {}

\* two valid features at the same coordinates, queried at zoom 17: two
\* single descriptors
C11_Witness ==
    /\ Returned /\ IsViewport /\ ViewHoldsAll
    /\ zoom = Num(17)
    /\ Len(ValidInputs) = 2
    /\ ValidInputs[1].coordinates = ValidInputs[2].coordinates
    /\ Len(markers) = 2
    /\ ClusterMarkers = {}

\* the magnitude an element's colour was chosen for
ShownMagnitude(e) ==
    IF e.type = "single" THEN e.data.magnitude ELSE e.data.avgMagnitude

\* the bands of the colour scale, calmest first
BandOf(color) ==
    CASE color = "#7cb342" -> 0
      [] color = "#fbc02d" -> 1
      [] color = "#ffa000" -> 2
      [] color = "#f57c00" -> 3
      [] color = "#d32f2f" -> 4
      [] OTHER -> -1

\* the band the claim gives a magnitude n/d: inclusive lower bounds
StatedBand(m) ==
    IF m[1] # "number" THEN 0
    ELSE LET n == m[2][1]
             d == m[2][2]
         IN  IF n >= 7 * d THEN 4 ELSE IF n >= 6 * d THEN 3
             ELSE IF n >= 5 * d THEN 2 ELSE IF n >= 4 * d THEN 1 ELSE 0

\* m1 <= m2, for two numbers
NumLe(m1, m2) ==
    m1[1] = "number" /\ m2[1] = "number" /\ m1[2][1] * m2[2][2] <= m2[2][1] * m1[2][2]

\* C12: getMagnitudeColor gives every value a colour of the scale: strong red
\* from 7.0, orange from 6.0, amber from 5.0, yellow from 4.0, each bound
\* included, and light green for anything else; of two magnitudes the larger
\* never gets the calmer band.
C12_ColorBands ==
    /\ \A i \in 1..Len(elements) :
          BandOf(elements[i].el.backgroundColor)
            = StatedBand(ShownMagnitude(elements[i]))
    /\ \A i, j \in 1..Len(elements) :
          NumLe(ShownMagnitude(elements[i]), ShownMagnitude(elements[j]))
            => BandOf(elements[i].el.backgroundColor)
                 <= BandOf(elements[j].el.backgroundColor)

\* an element of magnitude exactly 7.0, strong red, after one of 6.9, orange
C12_Witness ==
    /\ Len(elements) = 2
    /\ ShownMagnitude(elements[1]) = Frac(69, 10)
    /\ elements[1].el.backgroundColor = "#f57c00"
    /\ ShownMagnitude(elements[2]) = Num(7)
    /\ elements[2].el.backgroundColor = "#d32f2f"

\* C13: a single marker of magnitude m has size max(20, 5m), never below
\* 20; a cluster marker of count c has size c clamped to [30, 60], so every
\* two clusters of count 60 or more have the same size.
C13_MarkerSize ==
    /\ \A i \in 1..Len(elements) :
          LET e == elements[i]
              size == e.el.size
          IN  IF e.type = "single"
              THEN e.data.magnitude[1] = "number" =>
                     LET n == e.data.magnitude[2][1]
                         d == e.data.magnitude[2][2]
                     IN  /\ size = (IF 5 * n > 20 * d THEN Frac(5 * n, d) ELSE Num(20))
                         /\ NumLe(Num(20), size)
              ELSE LET c == e.data.count[2][1]
                   IN  /\ size = Num(IF c < 30 THEN 30 ELSE IF c > 60 THEN 60 ELSE c)
                       /\ NumLe(Num(30), size) /\ NumLe(size, Num(60))
    /\ \A i, j \in 1..Len(elements) :
          (/\ elements[i].type = "cluster" /\ elements[j].type = "cluster"
           /\ NumLe(Num(60), elements[i].data.count)
           /\ NumLe(Num(60), elements[j].data.count))
            => elements[i].el.size = elements[j].el.size

\* clusters of 61 and of 100 points, both of size 60
C13_Witness ==
    /\ Len(elements) = 2
    /\ elements[1].type = "cluster" /\ elements[1].data.count = Num(61)
    /\ elements[2].type = "cluster" /\ elements[2].data.count = Num(100)
    /\ elements[1].el.size = Num(60)
    /\ elements[2].el.size = Num(60)

Rendered == pc = "rendered"

\* C14: one valid feature of magnitude 9.1 inside the viewport, queried at
\* zoom 16, gives exactly one descriptor, a single, whose marker has size at
\* least 45 and the strong red colour.
C14_GreatQuakeScenario ==
    (/\ Rendered /\ IsViewport /\ ViewHoldsAll
     /\ zoom = Num(16)
     /\ Len(ValidInputs) = 1
     /\ ValidInputs[1].properties.mag = Frac(91, 10)) =>
        /\ Len(markers) = 1
        /\ markers[1].type = "single"
        /\ Len(elements) = 1
        /\ NumLe(Num(45), elements[1].size)
        /\ elements[1].backgroundColor = "#d32f2f"

\* the scenario, with an invalid feature beside the great earthquake
C14_Witness ==
    /\ Rendered /\ IsViewport /\ ViewHoldsAll
    /\ zoom = Num(16)
    /\ Len(InputList) = 2
    /\ ValidInputs = <<QuakeNine>>
    /\ Len(elements) = 1
    /\ elements[1].size = Frac(91, 2)

\* C15: the validity filter, applied to the list it produced, returns that
\* list: the same features in the same order.
C15_FilterIdempotent ==
    Returned => ValidFeatures(validFeatures) = validFeatures

\* a call whose filter dropped one of two features and kept the other
C15_Witness ==
    /\ Returned
    /\ Len(InputList) = 2
    /\ Len(validFeatures) = 1
    /\ ValidFeatures(validFeatures) = validFeatures

LastLoad == loads[Len(loads)]

Settled == loads # <<>> /\ \A k \in 1..Len(loads) : loads[k].status # "pending"

\* C17: once every load in flight has answered, in whatever order, the
\* earthquake list held is the one returned for the load started last (the
\* empty list when that load failed).
C17_LastLoadWins ==
    Settled =>
        earthquakes = (IF LastLoad.status = "resolved" /\ IsArray(LastLoad.data)
                       THEN LastLoad.data ELSE Arr(<<>>))

\* the markers updateMarkers makes of the list held, at the map's viewport
ExpectedMarkers ==
    Attach(createClusterMarkers(earthquakes, bounds, zoom).value, 1, <<>>).made

\* C18: right after the earthquake list changes on a loaded map, the markers
\* on the map are exactly those computed from the list now held; when that
\* list is empty, no marker is on the map.
C18_MarkersFromCurrentList ==
    (lastStep = "data" /\ mapLoaded) =>
        /\ onMap = ExpectedMarkers
        /\ (Items(earthquakes) = <<>> => onMap = <<>>)

\* the part of C18 that the component keeps: a list that is not empty
\* replaces the markers of the list before it
MarkersReplaced ==
    (lastStep = "data" /\ mapLoaded /\ Items(earthquakes) # <<>>) =>
        onMap = ExpectedMarkers

\* a burst is over: the quiet period has passed and no timer is pending
BurstOver == sinceEvent = DelayTicks /\ timers = {}

\* C19: at most one update timer is pending; no timer-driven updateMarkers
\* call of a burst (events less than 100 ms apart) comes before the
\* burst's last event; and once the burst is over it has caused exactly one
\* such call.
C19_Debounced ==
    /\ Cardinality(timers) <= 1
    /\ callsBeforeLast = 0
    /\ (BurstOver => burstCalls = 1)

\* the part of C19 that the component keeps: one pending timer at most,
\* which updateTimeoutRef holds
OneTimerPending ==
    /\ Cardinality(timers) <= 1
    /\ \A t \in timers : updateTimeoutRef = Num(t.id) /\ t.list = Items(earthquakes)

\* the start time of the call is not a time
BadStartTime == servicePc # "idle" /\ request.startTime \in {Str("invalid"), NaN}

\* a response came and it is not a success
BadResponse == response # 0 /\ response \notin 200..299

\* C20: getEarthquakes called with an invalid start time, or answered with
\* a response that is not OK, returns a promise that is rejected with an
\* error; a promise fulfilled with data means valid times and an OK
\* response.
C20_FailuresReject ==
    /\ (BadStartTime \/ BadResponse) =>
          /\ promise.state = "rejected"
          /\ promise.value[1] = "error"
          /\ servicePc = "done"
    /\ promise.state = "fulfilled" =>
          /\ ~BadStartTime /\ ~BadResponse
          /\ response # 0
          /\ promise.value \in BodyPool

\* the call of the test: startTime 'invalid' and nothing else
C20_Witness ==
    /\ request = [startTime |-> Str("invalid"), endTime |-> Undef, minMagnitude |-> Undef]
    /\ promise.state = "rejected"
    /\ response = 0

\* a response that is not OK: the promise is rejected
C20_WitnessStatus ==
    /\ response = 404
    /\ promise.state = "rejected"

\* the loadEarthquakes call k has not resolved or rejected yet
InFlight(k) == loads[k].status = "pending"

\* the state with which a load that ends in the catch block leaves the
\* component
FailedOutcome ==
    /\ error = Str("Failed to load earthquake data")
    /\ earthquakes = Arr(<<>>)
    /\ loading = FALSE

\* C21: every loadEarthquakes call that completes leaves a consistent
\* outcome: after a rejection or a response that is not an array the error
\* is 'Failed to load earthquake data', the list is empty and loading is
\* false; after an array the list is that array, loading is false and the
\* error is still null.
C21_ConsistentOutcome ==
    [][\A k \in 1..Len(loads) :
          (InFlight(k) /\ loads'[k].status # "pending") =>
             IF loads'[k].status = "resolved" /\ IsArray(loads'[k].data)
             THEN /\ earthquakes' = loads'[k].data
                  /\ loading' = FALSE
                  /\ error' = Null
             ELSE FailedOutcome']_vars

\* C22: loading is true in every state in which a fetch started by
\* loadEarthquakes has not resolved or rejected yet, overlapping loads
\* included.
C22_LoadingWhileInFlight ==
    (\E k \in 1..Len(loads) : InFlight(k)) => loading = TRUE

\* C23: after any sequence of updateMarkers and clearMarkers calls, one
\* that throws part-way through creating markers included, every marker
\* attached to the map is recorded in markersRef, so that the next
\* clearMarkers leaves no marker on the map.
C23_NoMarkerLeaked == Cleared(onMap, markersRef) = <<>>

\* the leak: updateMarkers has thrown, nothing is recorded, and a marker made
\* before the throw is on the map
C23_Leaked ==
    /\ error = Str("Error displaying earthquake data")
    /\ markersRef = <<>>
    /\ onMap # <<>>

=============================================================================
